---- MODULE Spec2Model ----
(***************************************************************************)
(* Model of tstrait/phenotype.py: the subtree sample enumerator            *)
(* (obtain_sample_nodes), the causal-allele resolver                       *)
(* (causal_mutation_sample_nodes, remove_list), the genetic value          *)
(* accumulator (node_genetic_value) and the node-to-individual reducer     *)
(* (individual_genetic).                                                   *)
(*                                                                         *)
(* Three specifications share the variables:                               *)
(*   EnumSpec / EnumFairSpec  one call of obtain_sample_nodes, one loop    *)
(*                            iteration per step;                          *)
(*   Spec                     node_genetic_value over the causal sites of  *)
(*                            a tree sequence, one mutation per step;      *)
(*   ReduceSpec               individual_genetic on a value vector.        *)
(***************************************************************************)
EXTENDS Integers, Sequences, FiniteSets, TLC

\* ------------------------------------------------------------------ bounds
NumNodes == 4

\* tskit.NULL, the "no node / no mutation" id the code compares against.
NULL == -1

Nodes == 0 .. (NumNodes - 1)

VARIABLES
    left_child_array,   \* tree.left_child_array : node -> first child or NULL
    right_sib_array,    \* tree.right_sib_array  : node -> next sibling or NULL
    pc,                 \* position of the running function
    root,               \* obtain_sample_nodes: argument
    stack,              \* obtain_sample_nodes: explicit stack (top = last)
    sample_node,        \* obtain_sample_nodes: result list
    pushed,             \* history: every node id appended to the stack, in order
    popped,             \* history: every node id popped from the stack, in order
    mutations,          \* the tree sequence's mutation table (id k is entry k+1)
    samples,            \* ts.samples(): the sample node ids, in order
    causal_allele,      \* causal allele of each causal site processed so far
    G,                  \* per-node genetic value array (index 0 is entry 1)
    beta_list,          \* effect size of each causal site processed so far
    frequency,          \* [num, den] of each causal site processed so far
    carriers,           \* history: the resolver's result for each processed site
    mutation_list,      \* resolver: the site's mutation ids in application order
    applied,            \* resolver: the mutation ids whose loop body has run
    sample_nodes,       \* resolver: working list of carrier nodes
    result,             \* individual_genetic: returned vector
    error               \* the exception that ended the run, or "none"

treeVars == <<left_child_array, right_sib_array>>
enumVars == <<root, stack, sample_node, pushed, popped>>
inputVars == <<mutations, samples>>
accVars == <<causal_allele, G, beta_list, frequency, carriers>>
resolverVars == <<mutation_list, applied, sample_nodes>>
vars == <<left_child_array, right_sib_array, pc, root, stack, sample_node,
          pushed, popped, mutations, samples, causal_allele, G, beta_list,
          frequency, carriers, mutation_list, applied, sample_nodes, result,
          error>>

\* ------------------------------------------------------- sequence helpers
Range(s) == {s[i] : i \in DOMAIN s}

NoDuplicates(s) == \A i, j \in DOMAIN s : i # j => s[i] # s[j]

Front(s) == SubSeq(s, 1, Len(s) - 1)

Last(s) == s[Len(s)]

Min(S) == CHOOSE x \in S : \A y \in S : x <= y

\* ------------------------------------------------------------- the trees
\* A tree of the tree sequence in tskit's first-child/next-sibling encoding.
\* Every rooted forest on Nodes is generated from a parent map in which a
\* parent has a larger id than its children; the children of a node (and the
\* roots, which tskit chains as the children of the virtual root) are linked
\* left to right in increasing id.
ParentMaps == {par \in [Nodes -> Nodes \cup {NULL}] :
                  \A n \in Nodes : par[n] = NULL \/ par[n] > n}

LeftChildOf(par) ==
    [p \in Nodes |->
        LET kids == {n \in Nodes : par[n] = p}
        IN  IF kids = {} THEN NULL ELSE Min(kids)]

RightSibOf(par) ==
    [n \in Nodes |->
        LET later == {m \in Nodes : par[m] = par[n] /\ m > n}
        IN  IF later = {} THEN NULL ELSE Min(later)]

\* ------------------------------------------------- obtain_sample_nodes
\* Lines 140-142: the inner while loop, walking the sibling chain from child
\* and appending every node of the chain to the stack.
RECURSIVE PushChildren(_, _, _)
PushChildren(stk, child, right_sib) ==
    IF child = NULL
    THEN stk
    ELSE PushChildren(Append(stk, child), right_sib[child], right_sib)

\* The loop body with the first child appended once before the sibling walk
\* and once more by it.
LoopBodyDoublePush(stk, leaves, left_child, right_sib) ==
    LET parent == Last(stk)
        rest   == Front(stk)
        child  == left_child[parent]
    IN  IF child # NULL
        THEN [stack |-> PushChildren(Append(rest, child), child, right_sib),
              sample_node |-> leaves]
        ELSE [stack |-> rest,
              sample_node |-> Append(leaves, child)]

\* Lines 137-144: one iteration of the outer while loop.  Pops the top of the
\* stack; a node with children has them pushed, a node without has the value
\* of `child` appended to sample_node: line 144 appends child, which is -1 on
\* that branch, not parent.
LoopBody(stk, leaves, left_child, right_sib) ==
    LET parent == Last(stk)
        rest   == Front(stk)
        child  == left_child[parent]
    IN  IF child # NULL
        THEN [stack |-> PushChildren(rest, child, right_sib),
              sample_node |-> leaves]
        ELSE [stack |-> rest,
              sample_node |-> Append(leaves, child)]

\* Lines 134-145: the whole call, as the resolver uses it.
RECURSIVE RunLoop(_, _, _, _)
RunLoop(stk, leaves, left_child, right_sib) ==
    IF stk = <<>>
    THEN leaves
    ELSE LET r == LoopBody(stk, leaves, left_child, right_sib)
         IN  RunLoop(r.stack, r.sample_node, left_child, right_sib)

obtain_sample_nodes(r, left_child, right_sib) ==
    RunLoop(<<r>>, <<>>, left_child, right_sib)

\* ---- the enumerator specification: one call, one loop iteration per step
EnumInit ==
    /\ \E par \in ParentMaps :
          /\ left_child_array = LeftChildOf(par)
          /\ right_sib_array = RightSibOf(par)
    /\ pc = "idle"
    /\ root = NULL
    /\ stack = <<>>
    /\ sample_node = <<>>
    /\ pushed = <<>>
    /\ popped = <<>>
    /\ mutations = <<>>
    /\ samples = <<>>
    /\ causal_allele = <<>>
    /\ G = <<>>
    /\ beta_list = <<>>
    /\ frequency = <<>>
    /\ carriers = <<>>
    /\ mutation_list = <<>>
    /\ applied = <<>>
    /\ sample_nodes = <<>>
    /\ result = <<>>
    /\ error = "none"

\* Lines 134-135: stack = [root]; sample_node = [].
EnumCall ==
    /\ pc = "idle"
    /\ \E r \in Nodes :
          /\ root' = r
          /\ stack' = <<r>>
          /\ pushed' = <<r>>
    /\ sample_node' = <<>>
    /\ popped' = <<>>
    /\ pc' = "running"
    /\ UNCHANGED <<treeVars, inputVars, accVars, resolverVars, result, error>>

\* Lines 136-144: while stack: one iteration.
EnumStep ==
    /\ pc = "running"
    /\ stack # <<>>
    /\ LET r == LoopBody(stack, sample_node, left_child_array, right_sib_array)
       IN  /\ stack' = r.stack
           /\ sample_node' = r.sample_node
           /\ popped' = Append(popped, Last(stack))
           /\ pushed' = pushed \o SubSeq(r.stack, Len(stack), Len(r.stack))
    /\ UNCHANGED <<treeVars, pc, root>>
    /\ UNCHANGED <<inputVars, accVars, resolverVars, result, error>>

\* Line 145: return sample_node.
EnumReturn ==
    /\ pc = "running"
    /\ stack = <<>>
    /\ pc' = "done"
    /\ UNCHANGED <<treeVars, enumVars>>
    /\ UNCHANGED <<inputVars, accVars, resolverVars, result, error>>

EnumNext == EnumCall \/ EnumStep \/ EnumReturn

EnumSpec == EnumInit /\ [][EnumNext]_vars

\* The loop is straight-line sequential code: once called it keeps running.
EnumFairSpec == EnumSpec /\ WF_vars(EnumStep) /\ WF_vars(EnumReturn)

\* ---- reference definitions for the enumerator claims
\* The children of a node: the sibling chain from its first child.
RECURSIVE Chain(_, _)
Chain(n, right_sib) ==
    IF n = NULL THEN {} ELSE {n} \cup Chain(right_sib[n], right_sib)

ChildrenOf(p, left_child, right_sib) == Chain(left_child[p], right_sib)

RECURSIVE Reachable(_, _, _)
Reachable(n, left_child, right_sib) ==
    {n} \cup UNION {Reachable(c, left_child, right_sib) :
                       c \in ChildrenOf(n, left_child, right_sib)}

LeavesUnder(n, left_child, right_sib) ==
    {m \in Reachable(n, left_child, right_sib) : left_child[m] = NULL}

\* C1: at return, obtain_sample_nodes holds exactly the leaves reachable
\* from root, each exactly once (the singleton root when root is a leaf).
C1_ReturnsLeavesOnce ==
    pc = "done" =>
        /\ Range(sample_node) = LeavesUnder(root, left_child_array, right_sib_array)
        /\ NoDuplicates(sample_node)

\* C9: the traversal terminates (once running, the stack eventually is empty
\* and the call returns) and no node id is pushed or popped more than once.
C9_TerminatesNoRevisit ==
    /\ [](pc = "running" => <>(stack = <<>> /\ pc = "done"))
    /\ [](NoDuplicates(pushed) /\ NoDuplicates(popped))

\* C9's case: a call on an internal node that has returned after visiting
\* more than one level of the tree.
C9_Witness ==
    /\ pc = "done"
    /\ stack = <<>>
    /\ Len(popped) >= 3
    /\ left_child_array[root] # NULL

\* ------------------------------------------------- the tree sequence
\* Bounds of the tree sequences the accumulator is run on.
NumSites == 2

MaxMutations == 3

NumAlleles == 3

MaxBeta == 2

\* Allele states; every site's ancestral state is state 0.
AncestralState == 0

Sites == 0 .. (NumSites - 1)

Alleles == 0 .. (NumAlleles - 1)

Max(S) == CHOOSE x \in S : \A y \in S : x >= y

\* The elements of a set of integers as an increasing sequence.
RECURSIVE Ascending(_)
Ascending(S) ==
    IF S = {} THEN <<>> ELSE <<Min(S)>> \o Ascending(S \ {Min(S)})

\* tree.parent(n), read off the child/sibling arrays.
ParentOf(n, left_child, right_sib) ==
    LET ps == {p \in Nodes : n \in ChildrenOf(p, left_child, right_sib)}
    IN  IF ps = {} THEN NULL ELSE CHOOSE p \in ps : TRUE

\* Node n is at time 2n (a parent has a larger id, so is older); a mutation
\* on the branch above n lies between n and its parent.
MutationTime(n) == 2 * n + 1

\* The rows [site, node, derived_state] of a mutation table meeting tskit's
\* requirements: sorted by site, and within a site by non-increasing time.
MutationRows ==
    LET Row == [site : Sites, node : Nodes, derived_state : Alleles]
        All == UNION {[1 .. k -> Row] : k \in 0 .. MaxMutations}
    IN  {t \in All :
            \A k \in 1 .. (Len(t) - 1) :
                \/ t[k].site < t[k + 1].site
                \/ /\ t[k].site = t[k + 1].site
                   /\ MutationTime(t[k].node) >= MutationTime(t[k + 1].node)}

\* The id of the mutation at site s that the state at node n is inherited
\* from, looking at n and then up the tree; NULL when there is none.
RECURSIVE NearestMutation(_, _, _, _, _)
NearestMutation(rows, s, n, left_child, right_sib) ==
    IF n = NULL
    THEN NULL
    ELSE LET on == {l \in DOMAIN rows : rows[l].site = s /\ rows[l].node = n}
         IN  IF on # {}
             THEN Max(on) - 1
             ELSE NearestMutation(rows, s, ParentOf(n, left_child, right_sib),
                                  left_child, right_sib)

\* mutation.parent as tskit computes it: the previous mutation on the same
\* node, else the last mutation on the nearest ancestor carrying one, else
\* tskit.NULL.
MutationParent(rows, k, left_child, right_sib) ==
    LET same == {l \in 1 .. (k - 1) :
                    rows[l].site = rows[k].site /\ rows[l].node = rows[k].node}
    IN  IF same # {}
        THEN Max(same) - 1
        ELSE NearestMutation(rows, rows[k].site,
                             ParentOf(rows[k].node, left_child, right_sib),
                             left_child, right_sib)

MutationTable(rows, left_child, right_sib) ==
    [k \in DOMAIN rows |->
        [site |-> rows[k].site,
         node |-> rows[k].node,
         derived_state |-> rows[k].derived_state,
         parent |-> MutationParent(rows, k, left_child, right_sib),
         time |-> MutationTime(rows[k].node)]]

\* ts.samples(): the leaves of the tree, in increasing id.
SamplesOf(left_child) == Ascending({n \in Nodes : left_child[n] = NULL})

\* site.mutations: the ids of the site's mutations, in table order.
SiteMutations(muts, s) == Ascending({k - 1 : k \in {l \in DOMAIN muts : muts[l].site = s}})

\* causal_allele(), lines 96-100: the derived states of the site that differ
\* from the ancestral state, one of which is chosen as the causal allele.
AlleleList(muts, s) ==
    {muts[k].derived_state : k \in {l \in DOMAIN muts :
        muts[l].site = s /\ muts[l].derived_state # AncestralState}}

\* site_id: the causal sites, in ascending position (lines 104-106).
CausalSites(muts) == Ascending({s \in Sites : AlleleList(muts, s) # {}})

\* ts.mutation(id): tskit indexes like a Python list, so a negative id counts
\* back from the last mutation of the whole table; tskit.NULL = -1 therefore
\* yields the last mutation of the tree sequence.
ts_mutation(muts, id) ==
    LET k == IF id < 0 THEN id + Len(muts) ELSE id
    IN  muts[k + 1]

\* ------------------------------------- causal_mutation_sample_nodes
\* Line 160: sorted(site.mutations, key=time, reverse=True); Python's sort is
\* stable, also with reverse=True.
RECURSIVE InsertByTime(_, _, _)
InsertByTime(sorted, id, muts) ==
    IF sorted = <<>>
    THEN <<id>>
    ELSE IF ts_mutation(muts, Head(sorted)).time >= ts_mutation(muts, id).time
         THEN <<Head(sorted)>> \o InsertByTime(Tail(sorted), id, muts)
         ELSE <<id>> \o sorted

RECURSIVE SortByTimeDescending(_, _)
SortByTimeDescending(ids, muts) ==
    IF ids = <<>>
    THEN <<>>
    ELSE InsertByTime(SortByTimeDescending(Front(ids), muts), Last(ids), muts)

\* list.remove(x): drops the first occurrence of x; ValueError when absent.
RECURSIVE ListRemove(_, _)
ListRemove(list, x) ==
    IF list = <<>>
    THEN [ok |-> FALSE, list |-> <<>>]
    ELSE IF Head(list) = x
         THEN [ok |-> TRUE, list |-> Tail(list)]
         ELSE LET r == ListRemove(Tail(list), x)
              IN  [ok |-> r.ok, list |-> <<Head(list)>> \o r.list]

\* Lines 147-153.
RECURSIVE remove_list(_, _)
remove_list(list, remove_nodes) ==
    IF remove_nodes = <<>>
    THEN [ok |-> TRUE, list |-> list]
    ELSE LET r == ListRemove(list, Head(remove_nodes))
         IN  IF r.ok
             THEN remove_list(r.list, Tail(remove_nodes))
             ELSE [ok |-> FALSE, list |-> list]

\* Lines 163-168: the loop body for mutation m.
ResolveMutation(list, m, causal, muts, left_child, right_sib) ==
    IF m.derived_state = causal
    THEN [ok |-> TRUE,
          list |-> list \o obtain_sample_nodes(m.node, left_child, right_sib)]
    ELSE IF ts_mutation(muts, m.parent).derived_state = causal
         THEN remove_list(list, obtain_sample_nodes(m.node, left_child, right_sib))
         ELSE [ok |-> TRUE, list |-> list]

\* ----------------------------------------------- node_genetic_value
\* Line 197: G[causal_sample_nodes] += beta.  numpy reads G at the index
\* list, adds, and writes back: an index that occurs several times is
\* incremented once, and a negative index counts from the end of G.
FancyAdd(g, index_list, beta) ==
    LET hit == {IF x < 0 THEN x + Len(g) + 1 ELSE x + 1 : x \in Range(index_list)}
    IN  [n \in DOMAIN g |-> IF n \in hit THEN g[n] + beta ELSE g[n]]

\* The effect sizes the sampler may return for a site.  Line 195 calls
\* sim_beta, which the source does not define; the effect size is an input
\* of the accumulation, drawn per site.
Betas == 1 .. MaxBeta

site_id == CausalSites(mutations)

\* Lines 177-186: a one-tree tree sequence; G zeroed, nothing processed.
Init ==
    /\ \E par \in ParentMaps :
          /\ left_child_array = LeftChildOf(par)
          /\ right_sib_array = RightSibOf(par)
    /\ \E rows \in MutationRows :
          mutations = MutationTable(rows, left_child_array, right_sib_array)
    /\ samples = SamplesOf(left_child_array)
    /\ G = [n \in 1 .. (Max(Range(samples)) + 1) |-> 0]
    /\ beta_list = <<>>
    /\ frequency = <<>>
    /\ causal_allele = <<>>
    /\ carriers = <<>>
    /\ mutation_list = <<>>
    /\ applied = <<>>
    /\ sample_nodes = <<>>
    /\ pc = "site"
    /\ error = "none"
    /\ root = NULL
    /\ stack = <<>>
    /\ sample_node = <<>>
    /\ pushed = <<>>
    /\ popped = <<>>
    /\ result = <<>>

\* Lines 188-190 and 159-160: the next causal site; its causal allele is the
\* caller's choice among the site's derived alleles; the tree is the one tree
\* of the sequence; the resolver starts with the sorted mutations.
SeekAndSort ==
    /\ pc = "site"
    /\ Len(carriers) < Len(site_id)
    /\ LET s == site_id[Len(carriers) + 1]
       IN  /\ \E c \in AlleleList(mutations, s) :
                 causal_allele' = Append(causal_allele, c)
           /\ mutation_list' =
                 SortByTimeDescending(SiteMutations(mutations, s), mutations)
    /\ applied' = <<>>
    /\ sample_nodes' = <<>>
    /\ pc' = "mutation"
    /\ UNCHANGED <<treeVars, enumVars, inputVars, result, error>>
    /\ UNCHANGED <<G, beta_list, frequency, carriers>>

\* Lines 162-168: one iteration of the resolver's loop.
ApplyMutation ==
    /\ pc = "mutation"
    /\ Len(applied) < Len(mutation_list)
    /\ LET id == mutation_list[Len(applied) + 1]
           r  == ResolveMutation(sample_nodes, ts_mutation(mutations, id),
                                 Last(causal_allele), mutations,
                                 left_child_array, right_sib_array)
       IN  /\ applied' = Append(applied, id)
           /\ IF r.ok
              THEN /\ sample_nodes' = r.list
                   /\ UNCHANGED <<pc, error>>
              ELSE /\ pc' = "failed"
                   /\ error' = "ValueError"
                   /\ UNCHANGED sample_nodes
    /\ UNCHANGED <<treeVars, enumVars, inputVars, accVars, mutation_list, result>>

\* Lines 170 and 191-197: the resolver returns; frequency, beta and G.
Accumulate ==
    /\ pc = "mutation"
    /\ Len(applied) = Len(mutation_list)
    /\ frequency' = Append(frequency, [num |-> Len(sample_nodes), den |-> Len(samples)])
    /\ \E beta \in Betas :
          /\ beta_list' = Append(beta_list, beta)
          /\ G' = FancyAdd(G, sample_nodes, beta)
    /\ carriers' = Append(carriers, sample_nodes)
    /\ pc' = "site"
    /\ UNCHANGED <<treeVars, enumVars, inputVars, causal_allele, resolverVars,
                   result, error>>

\* Line 199: return G, beta_list, frequency.
Return ==
    /\ pc = "site"
    /\ Len(carriers) = Len(site_id)
    /\ pc' = "done"
    /\ UNCHANGED <<treeVars, enumVars, inputVars, accVars, resolverVars,
                   result, error>>

Next == SeekAndSort \/ ApplyMutation \/ Accumulate \/ Return

Spec == Init /\ [][Next]_vars

\* ---- reference definitions for the resolver and accumulator claims
Leaves(n) == LeavesUnder(n, left_child_array, right_sib_array)

\* The mutations (records) of the k-th causal site, in table order.
MutationsOfCausalSite(k) ==
    LET ids == SiteMutations(mutations, site_id[k])
    IN  [x \in DOMAIN ids |-> ts_mutation(mutations, ids[x])]

RECURSIVE SumSeq(_)
SumSeq(s) == IF s = <<>> THEN 0 ELSE Head(s) + SumSeq(Tail(s))

\* The sum of the effect sizes of the processed sites whose carrier list
\* contains node n.
CarriedEffect(n) ==
    SumSeq([k \in DOMAIN carriers |->
               IF n \in Range(carriers[k]) THEN beta_list[k] ELSE 0])

\* The k-th causal site is the back-mutation scenario: X sets the causal
\* allele at an internal node, Y at a child of X's node overrides X with the
\* ancestral state.
IsBackMutationSite(k) ==
    LET ms == MutationsOfCausalSite(k)
        ids == SiteMutations(mutations, site_id[k])
    IN  /\ Len(ms) = 2
        /\ ms[1].derived_state = causal_allele[k]
        /\ left_child_array[ms[1].node] # NULL
        /\ ms[2].node \in ChildrenOf(ms[1].node, left_child_array, right_sib_array)
        /\ ms[2].parent = ids[1]
        /\ ms[2].derived_state = AncestralState

\* C2: in the back-mutation scenario the resolver returns exactly the sample
\* leaves under X that are not under Y.
C2_BackMutation ==
    \A k \in DOMAIN carriers :
        IsBackMutationSite(k) =>
            LET ms == MutationsOfCausalSite(k)
            IN  /\ Range(carriers[k]) = Leaves(ms[1].node) \ Leaves(ms[2].node)
                /\ NoDuplicates(carriers[k])

\* C3: after any prefix of the causal sites, G[n] is the sum of the effect
\* sizes of the processed sites whose carriers contain n; after a single site
\* sum(G) = beta * |C|.
C3_AdditiveAccumulation ==
    /\ \A n \in DOMAIN G : G[n] = CarriedEffect(n - 1)
    /\ Len(carriers) = 1 =>
          SumSeq(G) = beta_list[1] * Cardinality(Range(carriers[1]))

\* C4: every recorded frequency len(carriers)/num_samples lies in [0, 1], for
\* every mutation history.
C4_FrequencyBound ==
    \A k \in DOMAIN frequency :
        /\ 0 <= frequency[k].num
        /\ frequency[k].num <= frequency[k].den

\* C4, second half: the frequency is 0 exactly when no mutation of the site
\* has the causal allele as derived state.
C4_ZeroIffNoCausalMutation ==
    \A k \in DOMAIN frequency :
        (frequency[k].num = 0) <=>
            ~ \E x \in DOMAIN MutationsOfCausalSite(k) :
                  MutationsOfCausalSite(k)[x].derived_state = causal_allele[k]

\* A mutation whose parent the resolver has to consult although the parent
\* reference is null.
NeedsUnresolvedParent(m, causal) ==
    /\ m.derived_state # causal
    /\ m.parent = NULL

\* C7: whenever the resolver has to consult the parent of a mutation whose
\* parent reference does not resolve, the run fails with a missing-parent
\* error (here: with any error at all).
C7_MissingParentError ==
    (\E x \in DOMAIN applied :
        NeedsUnresolvedParent(ts_mutation(mutations, applied[x]),
                              Last(causal_allele)))
    => pc = "failed"

\* The k-th causal site has exactly one mutation to the causal allele, and no
\* mutation of the site has it as parent.
HasLoneCausalMutation(k) ==
    LET ms == MutationsOfCausalSite(k)
        ids == SiteMutations(mutations, site_id[k])
        cs == {x \in DOMAIN ms : ms[x].derived_state = causal_allele[k]}
    IN  /\ Cardinality(cs) = 1
        /\ \A x \in DOMAIN ms : \A y \in cs : ms[x].parent # ids[y]

LoneCausalNode(k) ==
    LET ms == MutationsOfCausalSite(k)
    IN  ms[CHOOSE x \in DOMAIN ms : ms[x].derived_state = causal_allele[k]].node

\* C8: for a site with one mutation to the causal allele and no
\* back-mutation of it, the resolver returns as many carriers as there are
\* sample leaves under that mutation's node.
C8_CarrierCount ==
    /\ \A k \in DOMAIN carriers :
          HasLoneCausalMutation(k) =>
              Len(carriers[k]) = Cardinality(Leaves(LoneCausalNode(k)))
    /\ pc = "failed" => ~ HasLoneCausalMutation(Len(causal_allele))

\* A mutation that neither sets the causal allele nor overrides a parent
\* mutation that set it.
IsNeutral(m, causal) ==
    /\ m.derived_state # causal
    /\ \/ m.parent = NULL
       \/ ts_mutation(mutations, m.parent).derived_state # causal

\* C10: mutations are applied in descending time, and applying a neutral
\* mutation leaves the carrier list unchanged.
C10_OrderAndNoEffect ==
    [][(pc = "mutation" /\ Len(applied') = Len(applied) + 1) =>
          LET m == ts_mutation(mutations, Last(applied'))
          IN  /\ \A x \in DOMAIN applied :
                    ts_mutation(mutations, applied[x]).time >= m.time
              /\ IsNeutral(m, Last(causal_allele)) =>
                    sample_nodes' = sample_nodes]_vars

\* C10, first half alone: the application order is descending in time.
C10_DescendingTime ==
    \A x, y \in DOMAIN applied :
        x < y => ts_mutation(mutations, applied[x]).time
                     >= ts_mutation(mutations, applied[y]).time

\* ----------------------------------------------- individual_genetic
\* Bounds of the value vectors the reducer is run on.
MaxSampleId == 4

MaxValue == 4

\* Line 206: G[ts.samples()], a new array holding G at the sample ids.
TakeAt(g, index_list) == [k \in DOMAIN index_list |-> g[index_list[k] + 1]]

\* a[start::2]: the entries at Python index start, start + 2, ...
Stride(a, start) ==
    [k \in 1 .. ((Len(a) - start + 1) \div 2) |-> a[start + 2 * (k - 1) + 1]]

\* a[:n] and a[n:] added: the two halves of the vector instead of its pairs.
HalvesAdd(a) ==
    [k \in 1 .. (Len(a) \div 2) |-> a[k] + a[k + (Len(a) \div 2)]]

\* numpy's a + b for one-dimensional arrays: equal lengths add elementwise,
\* a length-1 operand is broadcast along the other (so against an empty
\* operand the result is empty), anything else is a ValueError.
BroadcastAdd(a, b) ==
    IF Len(a) = Len(b)
    THEN [ok |-> TRUE, value |-> [k \in DOMAIN a |-> a[k] + b[k]]]
    ELSE IF Len(a) = 1
         THEN [ok |-> TRUE, value |-> [k \in DOMAIN b |-> a[1] + b[k]]]
         ELSE IF Len(b) = 1
              THEN [ok |-> TRUE, value |-> [k \in DOMAIN a |-> a[k] + b[1]]]
              ELSE [ok |-> FALSE, value |-> <<>>]

\* The reduction with the two halves paired: G[:k] + G[k:].
individual_genetic_halves(g, sample_ids) ==
    LET sel == TakeAt(g, sample_ids)
    IN  [ok |-> TRUE, value |-> HalvesAdd(sel), caller_G |-> g]

\* Lines 206-208.  Both statements rebind the local name G to a new array;
\* the caller's array is the third field.
individual_genetic(g, sample_ids) ==
    LET sel == TakeAt(g, sample_ids)
        sum == BroadcastAdd(Stride(sel, 0), Stride(sel, 1))
    IN  [ok |-> sum.ok, value |-> sum.value, caller_G |-> g]

\* The sample id lists: non-empty, increasing.
SampleLists == {Ascending(S) : S \in (SUBSET (0 .. MaxSampleId)) \ {{}}}

ReduceInit ==
    /\ \E ids \in SampleLists :
          /\ samples = ids
          /\ G \in [1 .. (Last(ids) + 1) -> 1 .. MaxValue]
    /\ result = <<>>
    /\ error = "none"
    /\ pc = "idle"
    /\ left_child_array = <<>>
    /\ right_sib_array = <<>>
    /\ root = NULL
    /\ stack = <<>>
    /\ sample_node = <<>>
    /\ pushed = <<>>
    /\ popped = <<>>
    /\ mutations = <<>>
    /\ causal_allele = <<>>
    /\ beta_list = <<>>
    /\ frequency = <<>>
    /\ carriers = <<>>
    /\ mutation_list = <<>>
    /\ applied = <<>>
    /\ sample_nodes = <<>>

\* Lines 202-208: the call.
Reduce ==
    /\ pc = "idle"
    /\ LET r == individual_genetic(G, samples)
       IN  /\ G' = r.caller_G
           /\ result' = r.value
           /\ pc' = IF r.ok THEN "done" ELSE "failed"
           /\ error' = IF r.ok THEN "none" ELSE "ValueError"
    /\ UNCHANGED <<treeVars, enumVars, inputVars, resolverVars>>
    /\ UNCHANGED <<causal_allele, beta_list, frequency, carriers>>

ReduceNext == Reduce

ReduceSpec == ReduceInit /\ [][ReduceNext]_vars

\* C5: for an even number 2k of genome copies the reducer returns the k sums
\* value[2i] + value[2i+1] of the values taken in sample order, and leaves the
\* input vector as it was.
C5_PairwiseSums ==
    [][(pc = "idle" /\ Len(samples) % 2 = 0) =>
          /\ pc' = "done"
          /\ Len(result') = Len(samples) \div 2
          /\ \A i \in 1 .. (Len(samples) \div 2) :
                result'[i] = G[samples[2 * i - 1] + 1] + G[samples[2 * i] + 1]
          /\ G' = G]_vars

\* C5's case: the per-copy values [1, 3, 2, 4] reduced to [4, 6].
C5_Witness ==
    /\ pc = "done"
    /\ TakeAt(G, samples) = <<1, 3, 2, 4>>
    /\ result = <<4, 6>>

\* C6: for an odd number of genome copies the reducer fails and returns no
\* result vector.
C6_OddLengthFails ==
    Len(samples) % 2 = 1 => pc # "done"

====
